---------------------------- MODULE Spec2Model ----------------------------
(***************************************************************************)
(* Model of listings/views.py: the view sets of the travel-app API.        *)
(*                                                                         *)
(* The store is the three tables the views touch (UserProfile, Listing,    *)
(* Booking).  Every method of the view sets that the properties below are  *)
(* about is one action (or, for perform_create, one action per database    *)
(* statement, so that requests of different workers interleave the way     *)
(* autocommitted statements do).  `response` is what the step that was     *)
(* taken last handed back to the framework: a Response, or the exception   *)
(* that left the method.                                                   *)
(*                                                                         *)
(* The framework calls the methods; which method it calls for a request,   *)
(* and in which order, is the framework's and is not modelled: a method is *)
(* an operation that can be invoked whenever its arguments exist.          *)
(* The class attributes of the view sets (filter backends, search and      *)
(* ordering fields) and the serializers are outside the model.             *)
(***************************************************************************)
EXTENDS Integers, Sequences, FiniteSets, TLC

VARIABLES profiles, listings, bookings, inflight, response

vars == <<profiles, listings, bookings, inflight, response>>

---------------------------------------------------------------------------
(* Bounds of the model. *)

MaxListings == 2      \* rows of the Listing table
MaxBookings == 2      \* rows of the Booking table

---------------------------------------------------------------------------
(* Values. *)

Principals == {"alice", "bob"}          \* authenticated request.user values
Anonymous  == "anonymous"               \* request.user of an unauthenticated request
Workers    == {"w1", "w2"}              \* request workers sharing the store

Roles            == {"guest", "host", "admin"}
ListingStatuses  == {"pending", "approved", "rejected"}
BookingStatuses  == {"pending", "confirmed", "cancelled"}

Dates == 1..3                           \* bookings lie in 2024-01-01 .. 2024-01-03

\* A query parameter: absent, the empty string, some text that is no date
\* ("not-a-date"), or the text "2024-mm-dd" with the two numbers m and d.
Absent == [kind |-> "absent", m |-> 0, d |-> 0]
Empty  == [kind |-> "empty",  m |-> 0, d |-> 0]
NotADate == [kind |-> "text", m |-> 0, d |-> 0]
Ymd(m, d) == [kind |-> "ymd", m |-> m, d |-> d]

QueryMonths == {1, 2, 13}
QueryDays   == 0..3
QueryParams == {Absent, Empty, NotADate} \cup {Ymd(m, d) : m \in QueryMonths, d \in QueryDays}

---------------------------------------------------------------------------
(* datetime.strptime(text, '%Y-%m-%d').date() for the texts above.         *)

DaysInMonth(m) ==
    IF m = 2 THEN 29                        \* 2024 is a leap year
    ELSE IF m \in {4, 6, 9, 11} THEN 30 ELSE 31

RECURSIVE DaysBefore(_)
DaysBefore(m) == IF m <= 1 THEN 0 ELSE DaysBefore(m - 1) + DaysInMonth(m - 1)

\* strptime raises ValueError for anything that is not a calendar date.
strptime_ok(p) ==
    /\ p.kind = "ymd"
    /\ p.m \in 1..12
    /\ p.d \in 1..DaysInMonth(p.m)

\* The date, as the day of the year 2024 (1 = 2024-01-01).
strptime_date(p) == DaysBefore(p.m) + p.d

\* Python's `not value` for a query parameter: None and '' are falsy.
Falsy(p) == p.kind \in {"absent", "empty"}

---------------------------------------------------------------------------
(* The tables.  A row's primary key is its index in the sequence.          *)

ListingRows == [host : Principals, status : ListingStatuses]

BookingRows(nListings) ==
    [property : 1..nListings, host : Principals, status : BookingStatuses,
     start_date : Dates, end_date : Dates]

ListingIds == 1..Len(listings)
BookingIds == 1..Len(bookings)

\* Sequences over S of length at most n.
SeqUpTo(S, n) == UNION {[1..k -> S] : k \in 0..n}

Idle == [pc |-> "idle", view |-> "none", user |-> "none", before |-> "none"]

NoResponse == [op |-> "none", outcome |-> "none", args |-> <<>>, body |-> <<>>, reads |-> <<>>]

Reply(op, outcome, args, body, reads) ==
    [op |-> op, outcome |-> outcome, args |-> args, body |-> body, reads |-> reads]

---------------------------------------------------------------------------
(* ListingViews.get_queryset: the rows an action of the view set sees.     *)

\* Mutant: the list action is not narrowed to the approved listings.
get_queryset_unfiltered(action) == ListingIds

get_queryset(action) ==
    IF action = "list"
    THEN {id \in ListingIds : listings[id].status = "approved"}
    ELSE ListingIds

\* GET /listings/: the list action serialises get_queryset().
ListAction ==
    /\ response' = Reply("list", "ok", <<>>, [ids |-> get_queryset("list")], <<"Listing">>)
    /\ UNCHANGED <<profiles, listings, bookings, inflight>>

\* GET /listings/{id}/: get_object() looks the id up in get_queryset().
RetrieveAction(property_id) ==
    /\ response' =
          IF property_id \in get_queryset("retrieve")
          THEN Reply("retrieve", "ok", [property_id |-> property_id],
                     [listing |-> listings[property_id]], <<"Listing">>)
          ELSE Reply("retrieve", "NotFound", [property_id |-> property_id],
                     <<>>, <<"Listing">>)
    /\ UNCHANGED <<profiles, listings, bookings, inflight>>

---------------------------------------------------------------------------
(* ListingViews.availability.                                              *)

\* Mutant: the lookups are start_date__lte and end_date__gte.
Overlaps_inclusive(b_start, b_end, start_date, end_date) ==
    /\ b_start <= end_date
    /\ b_end >= start_date

\* The two date lookups of the filter: start_date__lt and end_date__gt.
Overlaps(b_start, b_end, start_date, end_date) ==
    /\ b_start < end_date
    /\ b_end > start_date

\* Mutant: the filter has no status__in lookup.
conflicting_bookings_any_status(property_id, start_date, end_date) ==
    {id \in BookingIds :
        /\ bookings[id].property = property_id
        /\ Overlaps(bookings[id].start_date, bookings[id].end_date, start_date, end_date)}

\* Booking.objects.filter(property=..., status__in=..., start_date__lt=..., end_date__gt=...)
conflicting_bookings(property_id, start_date, end_date) ==
    {id \in BookingIds :
        /\ bookings[id].property = property_id
        /\ bookings[id].status \in {"pending", "confirmed"}
        /\ Overlaps(bookings[id].start_date, bookings[id].end_date, start_date, end_date)}

availability(property_id, start_param, end_param) ==
    LET args == [property_id |-> property_id, start_date |-> start_param,
                 end_date |-> end_param]
    IN
    /\ response' =
          IF property_id \notin get_queryset("availability")
          THEN \* get_object() raises Http404
               Reply("availability", "NotFound", args, <<>>, <<"Listing">>)
          ELSE IF Falsy(start_param) \/ Falsy(end_param)
          THEN \* Response(..., status=status.HTTP_400_BAD_REQUEST): the name
               \* `status` is not bound in the module, evaluating it raises
               Reply("availability", "ServerError", args,
                     [exception |-> "NameError"], <<"Listing">>)
          ELSE IF ~strptime_ok(start_param) \/ ~strptime_ok(end_param)
          THEN \* the ValueError handler builds its Response with `status` too
               Reply("availability", "ServerError", args,
                     [exception |-> "NameError"], <<"Listing">>)
          ELSE LET start_date == strptime_date(start_param)
                   end_date   == strptime_date(end_param)
                   conflicts  == conflicting_bookings(property_id, start_date, end_date)
               IN  Reply("availability", "ok", args,
                         [available |-> (conflicts = {}),
                          start_date |-> start_date,
                          end_date |-> end_date,
                          conflicting_bookings |-> Cardinality(conflicts)],
                         <<"Listing", "Booking">>)
    /\ UNCHANGED <<profiles, listings, bookings, inflight>>

---------------------------------------------------------------------------
(* get_permissions of the three view sets, and the framework's check of    *)
(* what it returns.                                                        *)

Views   == {"UserProfileVViews", "ListingViews", "BookingViews"}
Actions == {"list", "retrieve", "create", "update", "destroy"}

\* The permission class the method returns an instance of, or the exception
\* it raises, or None when it returns nothing.
get_permissions(view, action) ==
    CASE view = "UserProfileVViews" ->
            IF action = "list" THEN "IsAuthenticatedOrReadOnly"
            ELSE IF action = "create" THEN "AllowAny"
            ELSE "UnboundLocalError"     \* the else branch binds permission_clasess
      [] view = "ListingViews" ->
            IF action \in {"list", "retrieve"} THEN "AllowAny"
            ELSE IF action = "create" THEN "IsAuthenticated"
            ELSE "UnboundLocalError"     \* the else branch binds permission_classess
      [] view = "BookingViews" -> "None" \* the method has no return statement

\* has_permission of the permission classes (list and retrieve are GET requests).
has_permission(permission, action, user) ==
    CASE permission = "AllowAny" -> TRUE
      [] permission = "IsAuthenticated" -> user # Anonymous
      [] permission = "IsAuthenticatedOrReadOnly" ->
            action \in {"list", "retrieve"} \/ user # Anonymous

\* The framework iterates over get_permissions() before it calls the handler.
check_permissions(view, action, user) ==
    LET args == [view |-> view, action |-> action, user |-> user]
        permission == get_permissions(view, action)
    IN
    /\ response' =
          IF permission = "UnboundLocalError"
          THEN Reply("check_permissions", "ServerError", args,
                     [exception |-> "UnboundLocalError"], <<>>)
          ELSE IF permission = "None"
          THEN Reply("check_permissions", "ServerError", args,
                     [exception |-> "TypeError"], <<>>)
          ELSE IF has_permission(permission, action, user)
          THEN Reply("check_permissions", "permitted", args, <<>>, <<>>)
          ELSE Reply("check_permissions", "AuthorizationError", args, <<>>, <<>>)
    /\ UNCHANGED <<profiles, listings, bookings, inflight>>

---------------------------------------------------------------------------
(* perform_create of ListingViews and of BookingViews (the second of the   *)
(* two definitions in BookingViews is the one the class keeps).  The two   *)
(* methods have the same body; `view` says whose serializer saves.  No     *)
(* transaction is opened, so each statement commits on its own and the     *)
(* statements of two requests interleave.                                  *)

\* Mutant: the user column is not unique.
UserProfile_user_not_unique == FALSE

\* models.py declares UserProfile.user; the data model has one profile per
\* principal, so the column is unique and a second INSERT for the same user
\* raises IntegrityError.
UserProfile_user_unique == TRUE

\* Mutant: the role is left as it was found.
role_kept(role) == role

\* user_profile.role after lines 181-183.
promoted_role(role) == IF role # "host" THEN "host" ELSE role

\* The request's position once it holds user_profile with the role it read.
AfterGet(view, user, role) ==
    [pc |-> IF promoted_role(role) # role THEN "update_role" ELSE "save",
     view |-> view, user |-> user, before |-> role]

\* Rows of `view`'s table, counting the requests that are about to add one.
\* A request starts only while its row still fits the bound of the table.
Pending(view) == Cardinality({w \in Workers : inflight[w].view = view})

HasRoom(view) ==
    IF view = "ListingViews"
    THEN Len(listings) + Pending(view) < MaxListings
    ELSE Len(bookings) + Pending(view) < MaxBookings

\* get_or_create, first statement: UserProfile.objects.get(user=request.user).
perform_create_get(w, view, user) ==
    LET rows == profiles[user]
        args == [view |-> view, user |-> user]
    IN
    /\ inflight[w] = Idle
    /\ HasRoom(view)
    /\ IF Len(rows) > 1
       THEN /\ response' = Reply("perform_create", "ServerError", args,
                                 [exception |-> "MultipleObjectsReturned"],
                                 <<"UserProfile">>)
            /\ UNCHANGED inflight
       ELSE /\ response' = NoResponse
            /\ inflight' = [inflight EXCEPT ![w] =
                   IF rows = <<>>
                   THEN [pc |-> "create", view |-> view, user |-> user, before |-> "none"]
                   ELSE AfterGet(view, user, rows[1])]
    /\ UNCHANGED <<profiles, listings, bookings>>

\* The rows of the user after get_or_create's INSERT with defaults={'role': 'host'}.
get_or_create_insert(rows) ==
    IF UserProfile_user_unique /\ rows # <<>>
    THEN rows                      \* IntegrityError: nothing is inserted
    ELSE Append(rows, "host")

\* get_or_create, second statement: create(user=..., role='host'), and on
\* IntegrityError the get again.
perform_create_create(w) ==
    LET r    == inflight[w]
        rows == profiles[r.user]
        now  == get_or_create_insert(rows)
    IN
    /\ r.pc = "create"
    /\ profiles' = [profiles EXCEPT ![r.user] = now]
    /\ inflight' = [inflight EXCEPT ![w] =
           IF now = rows
           THEN AfterGet(r.view, r.user, rows[1])
           ELSE [r EXCEPT !.pc = "save"]]
    /\ response' = NoResponse
    /\ UNCHANGED <<listings, bookings>>

\* user_profile.role = 'host'; user_profile.save()
perform_create_update_role(w) ==
    LET r == inflight[w]
    IN
    /\ r.pc = "update_role"
    /\ profiles' = [profiles EXCEPT ![r.user] =
                       [@ EXCEPT ![1] = promoted_role(r.before)]]
    /\ inflight' = [inflight EXCEPT ![w] = [r EXCEPT !.pc = "save"]]
    /\ response' = NoResponse
    /\ UNCHANGED <<listings, bookings>>

\* serializer.save(host=user_profile) of ListingSerializer: the INSERT, or the
\* exception it raises, which leaves perform_create.
ListingViews_save(w, status, ok) ==
    LET r    == inflight[w]
        args == [view |-> r.view, user |-> r.user]
    IN
    /\ r.pc = "save"
    /\ r.view = "ListingViews"
    /\ IF ok
       THEN /\ listings' = Append(listings, [host |-> r.user, status |-> status])
            /\ response' = Reply("perform_create", "created", args,
                                 [id |-> Len(listings) + 1, before |-> r.before],
                                 <<"UserProfile", "Listing">>)
       ELSE /\ UNCHANGED listings
            /\ response' = Reply("perform_create", "ServerError", args,
                                 [exception |-> "save", before |-> r.before],
                                 <<"UserProfile", "Listing">>)
    /\ inflight' = [inflight EXCEPT ![w] = Idle]
    /\ UNCHANGED <<profiles, bookings>>

\* serializer.save(host=user_profile) of BookingSerializer.
BookingViews_save(w, property_id, status, start_date, end_date, ok) ==
    LET r    == inflight[w]
        args == [view |-> r.view, user |-> r.user]
    IN
    /\ r.pc = "save"
    /\ r.view = "BookingViews"
    /\ property_id \in ListingIds
    /\ IF ok
       THEN /\ bookings' = Append(bookings,
                  [property |-> property_id, host |-> r.user, status |-> status,
                   start_date |-> start_date, end_date |-> end_date])
            /\ response' = Reply("perform_create", "created", args,
                                 [id |-> Len(bookings) + 1, before |-> r.before],
                                 <<"UserProfile", "Booking">>)
       ELSE /\ UNCHANGED bookings
            /\ response' = Reply("perform_create", "ServerError", args,
                                 [exception |-> "save", before |-> r.before],
                                 <<"UserProfile", "Booking">>)
    /\ inflight' = [inflight EXCEPT ![w] = Idle]
    /\ UNCHANGED <<profiles, listings>>

---------------------------------------------------------------------------
(* Specifications.                                                         *)

AllIdle == [w \in Workers |-> Idle]

\* The availability check, applied once to every Booking table of at most
\* MaxBookings rows on two listings.
InitAvailability ==
    /\ profiles = [u \in Principals |-> <<"host">>]
    /\ listings = <<[host |-> "alice", status |-> "approved"],
                    [host |-> "bob", status |-> "pending"]>>
    /\ bookings \in SeqUpTo({b \in BookingRows(2) : b.host = "alice"}, MaxBookings)
    /\ inflight = AllIdle
    /\ response = NoResponse

WellFormed == {Ymd(1, d) : d \in Dates} \cup {Ymd(2, 1)}

NextAvailability ==
    /\ response = NoResponse
    /\ \E property_id \in ListingIds, s, e \in WellFormed :
           availability(property_id, s, e)

SpecAvailability == InitAvailability /\ [][NextAvailability]_vars

\* The same check with every kind of query parameter.
NextValidation ==
    /\ response = NoResponse
    /\ \E property_id \in 1..(Len(listings) + 1), s, e \in QueryParams :
           availability(property_id, s, e)

SpecValidation == InitAvailability /\ [][NextValidation]_vars

\* The read actions and the permission check over every Listing table of at
\* most MaxListings rows.
InitListings ==
    /\ profiles = [u \in Principals |-> <<"host">>]
    /\ listings \in SeqUpTo(ListingRows, MaxListings)
    /\ bookings = <<>>
    /\ inflight = AllIdle
    /\ response = NoResponse

NextListings ==
    \/ ListAction
    \/ \E property_id \in 1..(Len(listings) + 1) : RetrieveAction(property_id)
    \/ \E view \in Views, action \in Actions, user \in Principals \cup {Anonymous} :
           check_permissions(view, action, user)

SpecListings == InitListings /\ [][NextListings]_vars

\* Listing and booking creation by two workers, from an empty Listing and
\* Booking table and any UserProfile table with at most one row per principal.
\* What the profile steps do does not depend on the data of the row that is
\* saved, so every request carries the same data here.
Init ==
    /\ profiles \in [Principals -> {<<>>} \cup {<<r>> : r \in Roles}]
    /\ listings = <<>>
    /\ bookings = <<>>
    /\ inflight = AllIdle
    /\ response = NoResponse

Next ==
    \/ \E w \in Workers, view \in {"ListingViews", "BookingViews"}, user \in Principals :
           perform_create_get(w, view, user)
    \/ \E w \in Workers : perform_create_create(w)
    \/ \E w \in Workers : perform_create_update_role(w)
    \/ \E w \in Workers, ok \in BOOLEAN : ListingViews_save(w, "pending", ok)
    \/ \E w \in Workers, ok \in BOOLEAN : BookingViews_save(w, 1, "pending", 1, 2, ok)

Spec == Init /\ [][Next]_vars

\* Booking creation by two workers with every booking data, on two listings
\* whose hosts have their profiles.
InitBookings ==
    /\ profiles = [u \in Principals |-> <<"host">>]
    /\ listings = <<[host |-> "alice", status |-> "approved"],
                    [host |-> "bob", status |-> "pending"]>>
    /\ bookings = <<>>
    /\ inflight = AllIdle
    /\ response = NoResponse

NextBookings ==
    \/ \E w \in Workers, user \in Principals : perform_create_get(w, "BookingViews", user)
    \/ \E w \in Workers, property_id \in ListingIds, status \in BookingStatuses,
          start_date \in Dates, end_date \in Dates, ok \in BOOLEAN :
           BookingViews_save(w, property_id, status, start_date, end_date, ok)

SpecBookings == InitBookings /\ [][NextBookings]_vars

---------------------------------------------------------------------------
(* Properties.                                                             *)

Active(id) == bookings[id].status \in {"pending", "confirmed"}

\* The day of the year of a well-formed parameter, read off the text.
DayOfYear(p) == IF p.m = 1 THEN p.d ELSE 31 + p.d

IsBookingCreate(r) ==
    r.op = "perform_create" /\ r.args.view = "BookingViews"

\* C1: no two distinct pending or confirmed bookings of one listing have
\* overlapping half-open intervals [start_date, end_date).
NoOverlappingActiveBookings ==
    \A a, b \in BookingIds :
        (/\ a # b
         /\ bookings[a].property = bookings[b].property
         /\ Active(a) /\ Active(b))
        => ~(/\ bookings[a].start_date < bookings[b].end_date
             /\ bookings[b].start_date < bookings[a].end_date)

\* C2: a booking is never persisted while a pending or confirmed booking of
\* the same listing overlaps its interval (the request ends in Conflict).
CreateBookingRejectsConflict ==
    (IsBookingCreate(response) /\ response.outcome = "created")
    => LET new == bookings[response.body.id]
       IN  \A id \in BookingIds \ {response.body.id} :
               (bookings[id].property = new.property /\ Active(id))
               => ~(/\ bookings[id].start_date < new.end_date
                    /\ new.start_date < bookings[id].end_date)

\* C3: for a well-formed query, available is true exactly when no pending or
\* confirmed booking of the listing has start_date < endDate and
\* end_date > startDate, and the conflict count is the number of such
\* bookings; other listings' bookings and other statuses do not count.
AvailabilityIffNoActiveOverlap ==
    (response.op = "availability" /\ response.args.property_id \in ListingIds)
    => LET s == DayOfYear(response.args.start_date)
           e == DayOfYear(response.args.end_date)
           hits == {id \in BookingIds :
                       /\ bookings[id].property = response.args.property_id
                       /\ Active(id)
                       /\ bookings[id].start_date < e
                       /\ bookings[id].end_date > s}
       IN  /\ response.outcome = "ok"
           /\ response.body.start_date = s
           /\ response.body.end_date = e
           /\ response.body.available = (hits = {})
           /\ response.body.conflicting_bookings = Cardinality(hits)

\* C3 witness: one conflict is counted while a cancelled booking, or a booking
\* of the other listing, lies inside the queried interval as well.
AvailabilityWitness ==
    /\ response.op = "availability" /\ response.outcome = "ok"
    /\ response.body.available = FALSE
    /\ response.body.conflicting_bookings = 1
    /\ \E id \in BookingIds :
          /\ (~Active(id) \/ bookings[id].property # response.args.property_id)
          /\ bookings[id].start_date < response.body.end_date
          /\ bookings[id].end_date > response.body.start_date

\* C4: the overlap test is symmetric, and a pending or confirmed booking that
\* ends on the queried start, or starts on the queried end, is no conflict:
\* with only such bookings the listing is available.
OverlapSymmetricAdjacencyExclusive ==
    /\ \A a, b \in BookingIds :
          Overlaps(bookings[a].start_date, bookings[a].end_date,
                   bookings[b].start_date, bookings[b].end_date)
          = Overlaps(bookings[b].start_date, bookings[b].end_date,
                     bookings[a].start_date, bookings[a].end_date)
    /\ (response.op = "availability" /\ response.outcome = "ok")
       => LET s == response.body.start_date
              e == response.body.end_date
              mine == {id \in BookingIds :
                          bookings[id].property = response.args.property_id /\ Active(id)}
              adjacent == {id \in mine :
                              bookings[id].end_date = s \/ bookings[id].start_date = e}
          IN  /\ \A id \in BookingIds :
                    Overlaps(bookings[id].start_date, bookings[id].end_date, s, e)
                    = Overlaps(s, e, bookings[id].start_date, bookings[id].end_date)
              /\ response.body.conflicting_bookings <= Cardinality(mine \ adjacent)
              /\ (mine = adjacent) => response.body.available

\* C4 witness: the query [2024-01-02, 2024-01-03) on a listing whose only active
\* booking is [2024-01-01, 2024-01-02) is answered available.
AdjacencyWitness ==
    /\ response.op = "availability" /\ response.outcome = "ok"
    /\ response.body.available
    /\ response.body.start_date = 2 /\ response.body.end_date = 3
    /\ \E id \in BookingIds :
          /\ bookings[id].property = response.args.property_id
          /\ Active(id)
          /\ bookings[id].start_date = 1 /\ bookings[id].end_date = 2

\* C5: a query with a date missing or not parsable ends in ValidationError,
\* and with a date missing nothing is read from the store.
MalformedQueryIsValidationError ==
    (/\ response.op = "availability"
     /\ response.args.property_id \in ListingIds
     /\ \E p \in {response.args.start_date, response.args.end_date} :
           Falsy(p) \/ ~strptime_ok(p))
    => /\ response.outcome = "ValidationError"
       /\ (Falsy(response.args.start_date) \/ Falsy(response.args.end_date))
          => response.reads = <<>>

\* C6: right after perform_create has saved the row, the creator has exactly
\* one profile and its role is host.
CreatorHasHostProfile ==
    (response.op = "perform_create" /\ response.outcome = "created")
    => profiles[response.args.user] = <<"host">>

\* C6 witness: a listing was created by a principal whose profile was a guest's.
GuestPromotedWitness ==
    /\ response.op = "perform_create" /\ response.outcome = "created"
    /\ response.args.view = "ListingViews"
    /\ response.body.before = "guest"

\* C7: when the save fails, the principal's profile is what get_or_create
\* found: none is created, no role is changed.
FailedSaveLeavesProfile ==
    (/\ response.op = "perform_create"
     /\ response.outcome = "ServerError"
     /\ response.body.exception = "save")
    => profiles[response.args.user] =
          IF response.body.before = "none" THEN <<>> ELSE <<response.body.before>>

\* C8: an unauthenticated create, update or destroy of a listing or booking,
\* and update or destroy of a profile, ends in AuthorizationError.
UnauthenticatedMutationIsAuthorizationError ==
    (/\ response.op = "check_permissions"
     /\ response.args.user = Anonymous
     /\ \/ /\ response.args.view \in {"ListingViews", "BookingViews"}
           /\ response.args.action \in {"create", "update", "destroy"}
        \/ /\ response.args.view = "UserProfileVViews"
           /\ response.args.action \in {"update", "destroy"})
    => response.outcome = "AuthorizationError"

\* C9: list returns exactly the approved listings; retrieve finds every
\* listing by its id, whatever its status.
ListApprovedRetrieveAll ==
    /\ response.op = "list"
       => response.body.ids = {id \in ListingIds : listings[id].status = "approved"}
    /\ (response.op = "retrieve" /\ response.args.property_id \in ListingIds)
       => /\ response.outcome = "ok"
          /\ response.body.listing = listings[response.args.property_id]

\* C9 witness: a listing that is not approved is retrieved by its id.
UnapprovedRetrievedWitness ==
    /\ response.op = "retrieve" /\ response.outcome = "ok"
    /\ response.body.listing.status = "pending"

=============================================================================
